---- MODULE Spec2Model ----
(***************************************************************************)
(* Model of the thermostat controller: controller.py (setpoint scheduling  *)
(* and the orchestrating main) and oath2_honeywell.py (OAuth2 redirect     *)
(* listener, token refresh, vendor API calls).                             *)
(*                                                                         *)
(* Temperatures are integers counting half degrees (68 F is 136), so that  *)
(* the half-degree Celsius values of the configuration are exact.          *)
(* A datetime is a record [day, hour, minute, second, microsecond]; a      *)
(* "%H:%M:%S" string is a record [hour, minute, second].                   *)
(***************************************************************************)
EXTENDS Integers, Sequences, FiniteSets, TLC

VARIABLES
    \* ---- update_values applied to drawn inputs
    uvPc, uvIn, uvOut, uvOut2,
    \* ---- one of the other pure functions applied to drawn inputs
    fnPc, fnIn, fnOut,
    \* ---- main
    pc, config, creds, store, location_prefs, location_response, li, di, main_values,
    locations_found, devices_found, clock, examined, log, issued, ret,
    \* ---- get_oath2_token
    callerPc, serverPc, token_queue, shutdown_request, is_shut_down,
    request, handled, token

uvVars == <<uvPc, uvIn, uvOut, uvOut2>>
fnVars == <<fnPc, fnIn, fnOut>>
mainVars == <<pc, config, creds, store, location_prefs, location_response, li, di, main_values,
              locations_found, devices_found, clock, examined, log, issued, ret>>
oauthVars == <<callerPc, serverPc, token_queue, shutdown_request, is_shut_down,
               request, handled, token>>
vars == <<uvVars, fnVars, mainVars, oauthVars>>

\* Python's None where a dict or record is expected
None == [none |-> TRUE]
\* no return code yet
NoCode == -1

----------------------------------------------------------------------------
(* datetime arithmetic *)

DT(d, h, m, s, us) == [day |-> d, hour |-> h, minute |-> m, second |-> s, microsecond |-> us]

\* dt + datetime.timedelta(minutes=n)
AddMinutes(dt, n) ==
    LET total == dt.hour * 60 + dt.minute + n
    IN  [dt EXCEPT !.day = dt.day + (total \div 1440),
                   !.hour = (total % 1440) \div 60,
                   !.minute = total % 60]

\* a > b on datetimes
DtGreater(a, b) ==
    \/ a.day > b.day
    \/ a.day = b.day /\ a.hour > b.hour
    \/ a.day = b.day /\ a.hour = b.hour /\ a.minute > b.minute
    \/ a.day = b.day /\ a.hour = b.hour /\ a.minute = b.minute /\ a.second > b.second
    \/ a.day = b.day /\ a.hour = b.hour /\ a.minute = b.minute /\ a.second = b.second
           /\ a.microsecond > b.microsecond

\* dt.strftime("%H:%M:%S")
strftime(dt) == [hour |-> dt.hour, minute |-> dt.minute, second |-> dt.second]

\* datetime.combine(now.date(), strptime(time_str, "%H:%M:%S").time())
combine(now, time_str) == DT(now.day, time_str.hour, time_str.minute, time_str.second, 0)

is_x_minutes_in_future(time_str, minutes_in_future, now) ==
    DtGreater(combine(now, time_str), AddMinutes(now, minutes_in_future))

\* rounding that looks at the minute only
round_up_to_quarter_hour_MinuteOnly(dt) ==
    IF dt.minute % 15 = 0
    THEN dt
    ELSE LET next_minute == (((dt.minute \div 15) + 1) * 15) % 60
         IN  IF next_minute = 0
             THEN LET next_hour == dt.hour + 1
                  IN  IF next_hour = 24
                      THEN [dt EXCEPT !.day = dt.day + 1, !.hour = 0, !.minute = 0,
                                      !.second = 0, !.microsecond = 0]
                      ELSE [dt EXCEPT !.hour = next_hour, !.minute = 0,
                                      !.second = 0, !.microsecond = 0]
             ELSE [dt EXCEPT !.minute = next_minute, !.second = 0, !.microsecond = 0]

round_up_to_quarter_hour(dt) ==
    IF dt.second = 0 /\ dt.microsecond = 0 /\ dt.minute % 15 = 0
    THEN dt
    ELSE LET next_minute == (((dt.minute \div 15) + 1) * 15) % 60
         IN  IF next_minute = 0
             THEN LET next_hour == dt.hour + 1
                  IN  IF next_hour = 24
                      THEN [dt EXCEPT !.day = dt.day + 1, !.hour = 0, !.minute = 0,
                                      !.second = 0, !.microsecond = 0]
                      ELSE [dt EXCEPT !.hour = next_hour, !.minute = 0,
                                      !.second = 0, !.microsecond = 0]
             ELSE [dt EXCEPT !.minute = next_minute, !.second = 0, !.microsecond = 0]

----------------------------------------------------------------------------
(* update_values: the values dict is mutated in place; the result carries  *)
(* the dict as left by the call and the returned reference (the dict or    *)
(* None).                                                                  *)

\* values with key k set to v (k may be absent before)
SetKey(values, k, v) == [x \in DOMAIN values \cup {k} |-> IF x = k THEN v ELSE values[x]]

\* a read of a missing key raises KeyError: the dict stays as it was left
KeyError(values) == [values |-> values, ret |-> None, raised |-> TRUE]

\* the new hold ends 15 minutes from now, not rounded to the quarter hour
HoldStep_NoRounding(values, now) ==
    IF "thermostatSetpointStatus" \notin DOMAIN values
    THEN KeyError(values)
    ELSE IF values["thermostatSetpointStatus"] = "HoldUntil"
            /\ "nextPeriodTime" \notin DOMAIN values
    THEN KeyError(values)
    ELSE IF values["thermostatSetpointStatus"] # "HoldUntil"
            \/ ~ is_x_minutes_in_future(values["nextPeriodTime"], 15, now)
    THEN LET v4 == SetKey(SetKey(values, "thermostatSetpointStatus", "HoldUntil"),
                          "nextPeriodTime", strftime(AddMinutes(now, 15)))
         IN  [values |-> v4, ret |-> v4, raised |-> FALSE]
    ELSE [values |-> values, ret |-> None, raised |-> FALSE]

HoldStep(values, now) ==
    IF "thermostatSetpointStatus" \notin DOMAIN values
    THEN KeyError(values)
    ELSE IF values["thermostatSetpointStatus"] = "HoldUntil"
            /\ "nextPeriodTime" \notin DOMAIN values
    THEN KeyError(values)
    ELSE IF values["thermostatSetpointStatus"] # "HoldUntil"
            \/ ~ is_x_minutes_in_future(values["nextPeriodTime"], 15, now)
    THEN LET v4 == SetKey(SetKey(values, "thermostatSetpointStatus", "HoldUntil"),
                          "nextPeriodTime",
                          strftime(round_up_to_quarter_hour(AddMinutes(now, 15))))
         IN  [values |-> v4, ret |-> v4, raised |-> FALSE]
    ELSE [values |-> values, ret |-> None, raised |-> FALSE]

\* the setpoint compared with the Fahrenheit preference whatever the device's unit
update_values_UnitMix(values, temperatures, device_units, mode, setpoint, now) ==
    IF "mode" \notin DOMAIN values THEN KeyError(values) ELSE
    LET c1 == values["mode"] # mode
        v1 == IF c1 THEN SetKey(values, "mode", mode) ELSE values
        c2 == "heatCoolMode" \in DOMAIN v1 /\ v1["heatCoolMode"] # mode
        v2 == IF c2 THEN SetKey(v1, "heatCoolMode", mode) ELSE v1
    IN  IF setpoint \notin DOMAIN v2 THEN KeyError(v2) ELSE
    LET c3 == v2[setpoint] # temperatures["preferred"]["Fahrenheit"]
        v3 == IF c3 THEN SetKey(v2, setpoint, temperatures["preferred"][device_units]) ELSE v2
        values_changed == c1 \/ c2 \/ c3
    IN  IF values_changed
        THEN HoldStep(v3, now)
        ELSE [values |-> v3, ret |-> None, raised |-> FALSE]

update_values(values, temperatures, device_units, mode, setpoint, now) ==
    IF "mode" \notin DOMAIN values THEN KeyError(values) ELSE
    LET c1 == values["mode"] # mode
        v1 == IF c1 THEN SetKey(values, "mode", mode) ELSE values
        c2 == "heatCoolMode" \in DOMAIN v1 /\ v1["heatCoolMode"] # mode
        v2 == IF c2 THEN SetKey(v1, "heatCoolMode", mode) ELSE v1
    IN  IF setpoint \notin DOMAIN v2 THEN KeyError(v2) ELSE
    LET c3 == v2[setpoint] # temperatures["preferred"][device_units]
        v3 == IF c3 THEN SetKey(v2, setpoint, temperatures["preferred"][device_units]) ELSE v2
        values_changed == c1 \/ c2 \/ c3
    IN  IF values_changed
        THEN HoldStep(v3, now)
        ELSE [values |-> v3, ret |-> None, raised |-> FALSE]

update_heat_values(values, temperatures, device_units, now) ==
    update_values(values, temperatures, device_units, "Heat", "heatSetpoint", now)

update_cool_values(values, temperatures, device_units, now) ==
    update_values(values, temperatures, device_units, "Cool", "coolSetpoint", now)

----------------------------------------------------------------------------
(* add_missing_temperature_units *)

\* Python round() of the rational n/d (d > 0): nearest integer, ties to even
round(n, d) ==
    LET q == n \div d
        r == n % d
    IN  IF 2 * r < d THEN q
        ELSE IF 2 * r > d THEN q + 1
        ELSE IF q % 2 = 0 THEN q ELSE q + 1

\* the Celsius value rounded to a whole degree
add_missing_units_setting_WholeCelsius(setting) ==
    LET s1 == IF "Fahrenheit" \notin DOMAIN setting
              THEN SetKey(setting, "Fahrenheit", 2 * round(9 * setting["Celsius"] + 320, 10))
              ELSE setting
    IN  IF "Celsius" \notin DOMAIN s1
        THEN SetKey(s1, "Celsius", 2 * round(5 * (s1["Fahrenheit"] - 64), 18))
        ELSE s1

\* one setting: a function from a subset of {"Fahrenheit", "Celsius"} to half degrees
add_missing_units_setting(setting) ==
    LET s1 == IF "Fahrenheit" \notin DOMAIN setting
              THEN SetKey(setting, "Fahrenheit", 2 * round(9 * setting["Celsius"] + 320, 10))
              ELSE setting
    IN  IF "Celsius" \notin DOMAIN s1
        THEN SetKey(s1, "Celsius", round(5 * (s1["Fahrenheit"] - 64), 9))
        ELSE s1

Settings == {"lowest", "preferred", "highest"}

add_missing_temperature_units(prefs) ==
    [loc_id \in DOMAIN prefs |->
        [dev_id \in DOMAIN prefs[loc_id] |->
            [temperatures |->
                [setting \in Settings |->
                    add_missing_units_setting(prefs[loc_id][dev_id].temperatures[setting])]]]]

----------------------------------------------------------------------------
(* Inputs *)

F(deg) == 2 * deg
Fonly(deg) == [u \in {"Fahrenheit"} |-> F(deg)]
Conly(half) == [u \in {"Celsius"} |-> half]

\* the configuration file's location_prefs, as written by the user
ConfigPrefs ==
    [l \in {"L1"} |->
        [d \in {"D1", "D2"} |->
            IF d = "D1"
            THEN [temperatures |-> [lowest |-> Fonly(65), preferred |-> Fonly(68),
                                    highest |-> Fonly(75)]]
            ELSE [temperatures |-> [lowest |-> Conly(37), preferred |-> Conly(40),
                                    highest |-> Conly(48)]]]]

Thresholds == add_missing_temperature_units(ConfigPrefs)["L1"]["D1"].temperatures

T(h, m, s) == [hour |-> h, minute |-> m, second |-> s]

\* readings of datetime.datetime.now()
NowSet ==
    { DT(0, 13, 40, 0, 0), DT(0, 13, 44, 0, 0), DT(0, 13, 45, 0, 0), DT(0, 13, 45, 0, 1),
      DT(0, 13, 46, 0, 0), DT(0, 13, 47, 0, 0), DT(0, 13, 50, 30, 0), DT(0, 23, 30, 0, 0), DT(0, 23, 45, 0, 0),
      DT(0, 23, 50, 0, 0), DT(0, 0, 5, 0, 0) }

\* nextPeriodTime values reported by the devices
PeriodTimes == { T(14, 0, 0), T(14, 2, 0), T(14, 15, 0), T(0, 15, 0), T(0, 30, 0), T(23, 45, 0) }

Modes == {"Heat", "Cool", "Off"}
Statuses == {"HoldUntil", "NoHold"}
Units == {"Fahrenheit", "Celsius"}

BaseValues ==
    [mode : Modes, heatSetpoint : {F(60), F(68), 40}, coolSetpoint : {F(68), F(78)},
     thermostatSetpointStatus : Statuses, nextPeriodTime : PeriodTimes]

\* changeableValues objects, with and without the optional heatCoolMode key
ValuesSet ==
    BaseValues \cup { SetKey(v, "heatCoolMode", m) : v \in BaseValues, m \in {"Heat", "Cool"} }

----------------------------------------------------------------------------
(* update_values applied to drawn inputs *)

UVIdle == uvPc = "idle" /\ uvIn = None /\ uvOut = None /\ uvOut2 = None

UVInit ==
    /\ uvPc = "start"
    /\ uvIn \in [values : ValuesSet, device_units : Units, now : NowSet]
    /\ uvOut = None /\ uvOut2 = None

CallHeat ==
    /\ uvPc = "start"
    /\ uvOut' = update_heat_values(uvIn.values, Thresholds, uvIn.device_units, uvIn.now)
    /\ uvPc' = "heat"
    /\ UNCHANGED <<uvIn, uvOut2>>
    /\ UNCHANGED <<fnVars, mainVars, oauthVars>>

CallCool ==
    /\ uvPc = "start"
    /\ uvOut' = update_cool_values(uvIn.values, Thresholds, uvIn.device_units, uvIn.now)
    /\ uvPc' = "cool"
    /\ UNCHANGED <<uvIn, uvOut2>>
    /\ UNCHANGED <<fnVars, mainVars, oauthVars>>

\* the clock when the same update is called again right away
LaterNows == { uvIn.now, AddMinutes(uvIn.now, 1) }

\* a second call on the dict left by the first one
CallHeatAgain ==
    /\ uvPc = "heat"
    /\ \E now \in LaterNows :
         uvOut2' = update_heat_values(uvOut.values, Thresholds, uvIn.device_units, now)
    /\ uvPc' = "heat2"
    /\ UNCHANGED <<uvIn, uvOut>>
    /\ UNCHANGED <<fnVars, mainVars, oauthVars>>

CallCoolAgain ==
    /\ uvPc = "cool"
    /\ \E now \in LaterNows :
         uvOut2' = update_cool_values(uvOut.values, Thresholds, uvIn.device_units, now)
    /\ uvPc' = "cool2"
    /\ UNCHANGED <<uvIn, uvOut>>
    /\ UNCHANGED <<fnVars, mainVars, oauthVars>>

----------------------------------------------------------------------------
(* round_up_to_quarter_hour, is_x_minutes_in_future and                    *)
(* add_missing_temperature_units applied to drawn inputs                   *)

FnIdle == fnPc = "idle" /\ fnIn = None /\ fnOut = None

\* timestamps around every minute of three hours, the last one of the day included
RoundInputs ==
    { DT(0, h, m, sec, us) : h \in {0, 13, 23}, m \in 0..59, sec \in {0, 1, 59},
                             us \in {0, 1, 999999} }

RoundInit ==
    /\ fnPc = "start" /\ fnIn \in [dt : RoundInputs] /\ fnOut = None

CallRound ==
    /\ fnPc = "start"
    /\ fnOut' = [dt |-> round_up_to_quarter_hour(fnIn.dt)]
    /\ fnPc' = "round_up_to_quarter_hour"
    /\ UNCHANGED fnIn
    /\ UNCHANGED <<uvVars, mainVars, oauthVars>>

\* time strings, distances and clock readings on both sides of the boundary
FutureInputs ==
    [time_str : {T(14, 0, 0), T(14, 0, 1), T(13, 59, 59), T(0, 10, 0), T(23, 59, 0)},
     minutes_in_future : {0, 15, 30},
     now : {DT(0, 13, 30, 0, 0), DT(0, 13, 44, 0, 0), DT(0, 13, 44, 59, 999999),
            DT(0, 13, 45, 0, 0), DT(0, 13, 45, 0, 1), DT(0, 13, 46, 0, 0),
            DT(0, 14, 0, 0, 0), DT(0, 23, 50, 0, 0)}]

FutureInit ==
    /\ fnPc = "start" /\ fnIn \in FutureInputs /\ fnOut = None

CallFuture ==
    /\ fnPc = "start"
    /\ fnOut' = [result |->
                   is_x_minutes_in_future(fnIn.time_str, fnIn.minutes_in_future, fnIn.now)]
    /\ fnPc' = "is_x_minutes_in_future"
    /\ UNCHANGED fnIn
    /\ UNCHANGED <<uvVars, mainVars, oauthVars>>

\* settings as a user may write them: one unit or both (then not necessarily
\* consistent), in half degrees
SettingInputs ==
    { [u \in {"Fahrenheit"} |-> f] : f \in {F(68), F(69), F(70), F(-4), 137} }
    \cup { [u \in {"Celsius"} |-> c] : c \in {40, 41, 45, 35, -10} }
    \cup { [u \in {"Fahrenheit", "Celsius"} |-> IF u = "Fahrenheit" THEN F(68) ELSE 99] }

UnitsInputs ==
    { [l \in {"L1"} |-> [d \in {"D1"} |->
          [temperatures |-> [lowest |-> a, preferred |-> b, highest |-> c]]]] :
      a \in SettingInputs, b \in SettingInputs, c \in SettingInputs }

UnitsInit ==
    /\ fnPc = "start" /\ fnIn \in [prefs : UnitsInputs] /\ fnOut = None

CallAddUnits ==
    /\ fnPc = "start"
    /\ fnOut' = [prefs |-> add_missing_temperature_units(fnIn.prefs)]
    /\ fnPc' = "add_missing_temperature_units"
    /\ UNCHANGED fnIn
    /\ UNCHANGED <<uvVars, mainVars, oauthVars>>

----------------------------------------------------------------------------
(* main: responses of the vendor API *)

Vals(mode, heat, cool, status, period) ==
    [mode |-> mode, heatSetpoint |-> heat, coolSetpoint |-> cool,
     thermostatSetpointStatus |-> status, nextPeriodTime |-> period]

Dev(id, temp, units, vals) ==
    [deviceID |-> id, indoorTemperature |-> temp, units |-> units, changeableValues |-> vals]

\* device D1 reports Fahrenheit (thresholds 65 / 68 / 75 F)
D1Samples ==
    { Dev("D1", F(60), "Fahrenheit", Vals("Cool", F(60), F(78), "NoHold", T(14, 0, 0))),
      Dev("D1", F(60), "Fahrenheit", Vals("Cool", F(60), F(78), "HoldUntil", T(14, 15, 0))),
      Dev("D1", F(60), "Fahrenheit", Vals("Heat", F(68), F(78), "NoHold", T(14, 0, 0))),
      Dev("D1", F(65), "Fahrenheit", Vals("Cool", F(60), F(78), "NoHold", T(14, 0, 0))),
      Dev("D1", F(70), "Fahrenheit", Vals("Off", F(60), F(78), "NoHold", T(14, 0, 0))),
      Dev("D1", F(75), "Fahrenheit", Vals("Heat", F(60), F(78), "NoHold", T(14, 0, 0))),
      Dev("D1", F(80), "Fahrenheit",
          SetKey(Vals("Heat", F(60), F(78), "HoldUntil", T(0, 30, 0)), "heatCoolMode", "Heat")),
      \* a thermostat that reports no thermostatSetpointStatus
      Dev("D1", F(80), "Fahrenheit",
          [mode |-> "Heat", heatSetpoint |-> F(60), coolSetpoint |-> F(78),
           nextPeriodTime |-> T(14, 0, 0)]) }

\* device D2 reports Celsius (thresholds 18.5 / 20 / 24 C, in half degrees)
D2Samples ==
    { Dev("D2", 34, "Celsius", Vals("Off", 36, 50, "NoHold", T(14, 0, 0))),
      Dev("D2", 40, "Celsius", Vals("Off", 36, 50, "NoHold", T(14, 0, 0))),
      Dev("D2", 50, "Celsius", Vals("Heat", 40, 50, "HoldUntil", T(14, 2, 0))) }

\* a device that is not in location_prefs, and a location that is not
D9 == Dev("D9", F(60), "Fahrenheit", Vals("Cool", F(60), F(78), "NoHold", T(14, 0, 0)))
L9 == [locationID |-> "L9", devices |-> << Dev("D1", F(60), "Fahrenheit",
                                              Vals("Cool", F(60), F(78), "NoHold", T(14, 0, 0))) >>]

L1Set ==
    { [locationID |-> "L1", devices |-> <<a, b>>] : a \in D1Samples \cup {D9}, b \in D2Samples }

Responses ==
    { <<>> } \cup { <<l>> : l \in L1Set } \cup { <<L9, l>> : l \in L1Set }

Outcomes == {"ok", "fail", "raise"}

\* log entries, one per request sent to the vendor
FetchEntry(tok, outcome) ==
    [kind |-> "fetch", op |-> 0, token |-> tok, outcome |-> outcome]
RefreshEntry(op, tok, outcome, new) ==
    [kind |-> "refresh", op |-> op, token |-> tok, outcome |-> outcome, new |-> new]
PostEntry(op, tok, outcome, loc, dev, vals) ==
    [kind |-> "post", op |-> op, token |-> tok, outcome |-> outcome,
     loc_id |-> loc, dev_id |-> dev, values |-> vals]

----------------------------------------------------------------------------
(* main *)

MainIdle ==
    /\ pc = "idle" /\ config = None /\ creds = None /\ store = None
    /\ location_prefs = None
    /\ location_response = <<>> /\ li = 0 /\ di = 0 /\ main_values = None
    /\ locations_found = None /\ devices_found = None /\ clock = None
    /\ examined = <<>> /\ log = <<>> /\ issued = 0 /\ ret = NoCode

\* f without key k
Without(f, k) == [x \in DOMAIN f \ {k} |-> f[x]]

\* a JSON value that is neither int nor float
NonNumeric == -9999

\* isinstance(v, (int, float))
IsNumber(v) == v # NonNumeric

\* a configuration file that passes every assert of load_config
GoodConfig ==
    [redirect_port |-> 8080, client_id |-> "id", client_secret |-> "secret",
     credentials_fpath |-> "creds.json", location_prefs |-> ConfigPrefs]

\* entries for device D1 that fail an assert: no temperatures, a setting missing, a
\* setting with neither unit, a setting whose value is not a number
BadDevices ==
    LET temps == ConfigPrefs["L1"]["D1"].temperatures
    IN  { [name |-> "hall"] }
        \cup { [temperatures |-> Without(temps, setting)] : setting \in Settings }
        \cup { [temperatures |-> SetKey(temps, setting, bad)] :
                 setting \in Settings,
                 bad \in { [Kelvin |-> 293],
                           [Fahrenheit |-> NonNumeric],
                           [Fahrenheit |-> 130, Celsius |-> NonNumeric] } }

BadConfigs ==
    { Without(GoodConfig, k) : k \in DOMAIN GoodConfig }
    \cup { SetKey(GoodConfig, "location_prefs",
                  [l \in {"L1"} |-> SetKey(ConfigPrefs["L1"], "D1", device)]) :
             device \in BadDevices }

\* the credentials file with the token set of generation 0
GoodCreds == [access_token |-> 0, refresh_token |-> 0, expiration_time |-> 0]

BadCreds == { Without(GoodCreds, k) : k \in DOMAIN GoodCreds }

\* an assert that fails
AssertionError == [raised |-> TRUE, value |-> None]

\* load_config(fpath): the parsed file, or AssertionError
load_config(file) ==
    IF /\ "redirect_port" \in DOMAIN file
       /\ "client_id" \in DOMAIN file
       /\ "client_secret" \in DOMAIN file
       /\ "credentials_fpath" \in DOMAIN file
       /\ "location_prefs" \in DOMAIN file
       /\ \A loc_id \in DOMAIN file["location_prefs"] :
            \A dev_id \in DOMAIN file["location_prefs"][loc_id] :
               LET device == file["location_prefs"][loc_id][dev_id]
               IN  /\ "temperatures" \in DOMAIN device
                   /\ \A setting \in Settings :
                        /\ setting \in DOMAIN device["temperatures"]
                        /\ LET t == device["temperatures"][setting]
                           IN  /\ "Fahrenheit" \in DOMAIN t \/ "Celsius" \in DOMAIN t
                               /\ "Fahrenheit" \in DOMAIN t => IsNumber(t["Fahrenheit"])
                               /\ "Celsius" \in DOMAIN t => IsNumber(t["Celsius"])
    THEN [raised |-> FALSE, value |-> file]
    ELSE AssertionError

load_credentials_NoRefreshToken(file) ==
    IF /\ "access_token" \in DOMAIN file
       /\ "expiration_time" \in DOMAIN file
    THEN [raised |-> FALSE, value |-> file]
    ELSE AssertionError

\* load_credentials(fpath): the parsed file, or AssertionError
load_credentials(file) ==
    IF /\ "access_token" \in DOMAIN file
       /\ "refresh_token" \in DOMAIN file
       /\ "expiration_time" \in DOMAIN file
    THEN [raised |-> FALSE, value |-> file]
    ELSE AssertionError

\* before main is called: a configuration file and a credentials file, well formed
\* or not
MainInit ==
    /\ pc = "start" /\ creds = None
    /\ config \in {GoodConfig} \cup BadConfigs
    /\ store \in {GoodCreds} \cup BadCreds
    /\ location_prefs = None
    /\ location_response = <<>> /\ li = 0 /\ di = 0 /\ main_values = None
    /\ locations_found = None /\ devices_found = None /\ clock = None
    /\ examined = <<>> /\ log = <<>> /\ issued = 0 /\ ret = NoCode

\* the operation a request belongs to: 0 is the fetch, others the push of one device
Op == li * 10 + di

\* main up to the first request: an assert that fails ends main with the exception
Load ==
    /\ pc = "start"
    /\ LET cfg == load_config(config)
           crd == IF cfg.raised THEN AssertionError ELSE load_credentials(store)
       IN  IF cfg.raised \/ crd.raised
           THEN /\ pc' = "raised"
                /\ UNCHANGED <<creds, location_prefs, locations_found, devices_found>>
           ELSE LET prefs == add_missing_temperature_units(cfg.value["location_prefs"])
                IN  /\ location_prefs' = prefs
                    /\ creds' = crd.value
                    /\ locations_found' = [l \in DOMAIN prefs |-> FALSE]
                    /\ devices_found' =
                         [l \in DOMAIN prefs |-> [d \in DOMAIN prefs[l] |-> FALSE]]
                    /\ pc' = "fetch1"
    /\ UNCHANGED <<config, store, location_response, li, di, main_values, clock, examined, log, issued, ret>>
    /\ UNCHANGED <<uvVars, fnVars, oauthVars>>

\* get_locs_and_devs(config): pcOk on 200, pcFail on another status
Fetch(pcHere, pcFail, code) ==
    /\ pc = pcHere
    /\ \E outcome \in Outcomes :
         /\ log' = Append(log, FetchEntry(creds.access_token, outcome))
         /\ \/ /\ outcome = "ok"
               /\ \E resp \in Responses : location_response' = resp
               /\ pc' = "loop" /\ li' = 1 /\ di' = 0 /\ ret' = ret
            \/ /\ outcome = "fail"
               /\ pc' = pcFail /\ ret' = code
               /\ UNCHANGED <<location_response, li, di>>
            \/ /\ outcome = "raise"
               /\ pc' = "raised"
               /\ UNCHANGED <<location_response, li, di, ret>>
    /\ UNCHANGED <<config, creds, store, location_prefs, main_values, locations_found,
                   devices_found, clock, examined, issued>>
    /\ UNCHANGED <<uvVars, fnVars, oauthVars>>

\* oath2_honeywell.refresh_access_token(..., creds["refresh_token"]) and the test of its result
Refresh(pcHere, pcOk, code, raisedTo) ==
    /\ pc = pcHere
    /\ \E outcome \in Outcomes :
         \/ /\ outcome = "ok"
            /\ log' = Append(log, RefreshEntry(Op, creds.refresh_token, outcome, issued + 1))
            /\ issued' = issued + 1
            /\ pc' = pcOk /\ ret' = ret
         \/ /\ outcome = "fail"
            /\ log' = Append(log, RefreshEntry(Op, creds.refresh_token, outcome, 0))
            /\ pc' = "done" /\ ret' = code
            /\ UNCHANGED issued
         \/ /\ outcome = "raise"
            /\ log' = Append(log, RefreshEntry(Op, creds.refresh_token, outcome, 0))
            /\ pc' = raisedTo
            /\ UNCHANGED <<issued, ret>>
    /\ UNCHANGED <<config, creds, store, location_prefs, location_response, li, di, main_values,
                   locations_found, devices_found, clock, examined>>
    /\ UNCHANGED <<uvVars, fnVars, oauthVars>>

Fetch1 == Fetch("fetch1", "refresh_fetch", NoCode)

RefreshForFetch == Refresh("refresh_fetch", "fetch2", 1, "raised")

Fetch2 == Fetch("fetch2", "done", 2)

\* for location in location_response: the test "loc_id in location_prefs"
NextLocation ==
    /\ pc = "loop" /\ di = 0 /\ li <= Len(location_response)
    /\ LET loc_id == location_response[li].locationID
       IN  IF loc_id \in DOMAIN location_prefs
           THEN /\ locations_found' = [locations_found EXCEPT ![loc_id] = TRUE]
                /\ di' = 1 /\ li' = li
           ELSE /\ li' = li + 1
                /\ UNCHANGED <<locations_found, di>>
    /\ UNCHANGED <<pc, config, creds, store, location_prefs, location_response, main_values,
                   devices_found, clock, examined, log, issued, ret>>
    /\ UNCHANGED <<uvVars, fnVars, oauthVars>>

\* the branch of main with a temperature equal to lowest treated as below it
Decide_AtLowest(device, temperatures, now) ==
    IF device.indoorTemperature <= temperatures["lowest"][device.units]
    THEN [call |-> "update_heat_values",
          out |-> update_heat_values(device.changeableValues, temperatures, device.units, now)]
    ELSE IF device.indoorTemperature > temperatures["highest"][device.units]
    THEN [call |-> "update_cool_values",
          out |-> update_cool_values(device.changeableValues, temperatures, device.units, now)]
    ELSE [call |-> "none",
          out |-> [values |-> device.changeableValues, ret |-> None, raised |-> FALSE]]

\* the branch of main on indoorTemperature: the dict left by the update and the
\* reference assigned to values
Decide(device, temperatures, now) ==
    IF device.indoorTemperature < temperatures["lowest"][device.units]
    THEN [call |-> "update_heat_values",
          out |-> update_heat_values(device.changeableValues, temperatures, device.units, now)]
    ELSE IF device.indoorTemperature > temperatures["highest"][device.units]
    THEN [call |-> "update_cool_values",
          out |-> update_cool_values(device.changeableValues, temperatures, device.units, now)]
    ELSE [call |-> "none",
          out |-> [values |-> device.changeableValues, ret |-> None, raised |-> FALSE]]

\* for device in location["devices"]: one device, up to "if values is not None"; an
\* exception of the update is caught by the handler around the loop
ExamineDevice ==
    /\ pc = "loop" /\ di >= 1 /\ di <= Len(location_response[li].devices)
    /\ LET loc_id == location_response[li].locationID
           device == location_response[li].devices[di]
           dev_id == device.deviceID
       IN  IF dev_id \in DOMAIN location_prefs[loc_id]
           THEN /\ devices_found' = [devices_found EXCEPT ![loc_id][dev_id] = TRUE]
                /\ \E now \in NowSet :
                     LET d == Decide(device, location_prefs[loc_id][dev_id].temperatures, now)
                         r == d.out
                     IN  /\ clock' = now
                         /\ examined' = Append(examined,
                                [op |-> Op, loc_id |-> loc_id, device |-> device,
                                 call |-> d.call, now |-> now, ret |-> r.ret,
                                 raised |-> r.raised])
                         /\ location_response' =
                              [location_response EXCEPT ![li].devices[di].changeableValues = r.values]
                         /\ IF r.raised
                            THEN /\ main_values' = r.values
                                 /\ pc' = "report" /\ di' = di
                            ELSE /\ main_values' = r.ret
                                 /\ IF r.ret # None
                                    THEN pc' = "post1" /\ di' = di
                                    ELSE pc' = pc /\ di' = di + 1
           ELSE /\ di' = di + 1
                /\ UNCHANGED <<pc, location_response, main_values, devices_found, clock,
                               examined>>
    /\ UNCHANGED <<config, creds, store, location_prefs, li, locations_found, log, issued, ret>>
    /\ UNCHANGED <<uvVars, fnVars, oauthVars>>

\* the devices of one location are exhausted
LeaveLocation ==
    /\ pc = "loop" /\ di >= 1 /\ di > Len(location_response[li].devices)
    /\ li' = li + 1 /\ di' = 0
    /\ UNCHANGED <<pc, config, creds, store, location_prefs, location_response, main_values,
                   locations_found, devices_found, clock, examined, log, issued, ret>>
    /\ UNCHANGED <<uvVars, fnVars, oauthVars>>

\* the locations are exhausted
LoopDone ==
    /\ pc = "loop" /\ di = 0 /\ li > Len(location_response)
    /\ pc' = "report"
    /\ UNCHANGED <<config, creds, store, location_prefs, location_response, li, di, main_values,
                   locations_found, devices_found, clock, examined, log, issued, ret>>
    /\ UNCHANGED <<uvVars, fnVars, oauthVars>>

\* a push whose exception is caught for its device only
Post_CatchPerDevice(pcHere, pcFail, code) ==
    /\ pc = pcHere
    /\ \E outcome \in Outcomes :
         /\ log' = Append(log, PostEntry(Op, creds.access_token, outcome,
                                         location_response[li].locationID,
                                         location_response[li].devices[di].deviceID,
                                         main_values))
         /\ \/ /\ outcome = "ok"
               /\ pc' = "loop" /\ di' = di + 1 /\ ret' = ret
            \/ /\ outcome = "fail"
               /\ pc' = pcFail /\ ret' = code /\ di' = di
            \/ /\ outcome = "raise"
               /\ pc' = "loop" /\ di' = di + 1 /\ ret' = ret
    /\ UNCHANGED <<config, creds, store, location_prefs, location_response, li, main_values,
                   locations_found, devices_found, clock, examined, issued>>
    /\ UNCHANGED <<uvVars, fnVars, oauthVars>>

\* post_dev_settings(config): an exception is caught by the handler around the loop
Post(pcHere, pcFail, code) ==
    /\ pc = pcHere
    /\ \E outcome \in Outcomes :
         /\ log' = Append(log, PostEntry(Op, creds.access_token, outcome,
                                         location_response[li].locationID,
                                         location_response[li].devices[di].deviceID,
                                         main_values))
         /\ \/ /\ outcome = "ok"
               /\ pc' = "loop" /\ di' = di + 1 /\ ret' = ret
            \/ /\ outcome = "fail"
               /\ pc' = pcFail /\ ret' = code /\ di' = di
            \/ /\ outcome = "raise"
               /\ pc' = "report" /\ di' = di /\ ret' = ret
    /\ UNCHANGED <<config, creds, store, location_prefs, location_response, li, main_values,
                   locations_found, devices_found, clock, examined, issued>>
    /\ UNCHANGED <<uvVars, fnVars, oauthVars>>

Post1 == Post("post1", "refresh_post", NoCode)

\* a failed refresh for a push reported with the code of a failed retry
RefreshForPost_Code4 == Refresh("refresh_post", "post2", 4, "report")

RefreshForPost == Refresh("refresh_post", "post2", 3, "report")

\* a failed retry that goes back to the refresh
Post2_RetryAgain == Post("post2", "refresh_post", NoCode)

Post2 == Post("post2", "done", 4)

\* the summary after the loop, and "return 0"
Report ==
    /\ pc = "report"
    /\ pc' = "done" /\ ret' = 0
    /\ UNCHANGED <<config, creds, store, location_prefs, location_response, li, di, main_values,
                   locations_found, devices_found, clock, examined, log, issued>>
    /\ UNCHANGED <<uvVars, fnVars, oauthVars>>

Next ==
    \/ Load \/ Fetch1 \/ RefreshForFetch \/ Fetch2
    \/ NextLocation \/ ExamineDevice \/ LeaveLocation \/ LoopDone
    \/ Post1 \/ RefreshForPost \/ Post2 \/ Report

----------------------------------------------------------------------------
(* get_oath2_token: the calling thread and the thread running             *)
(* server.serve_forever, which handles one request at a time.  handled    *)
(* records, per request received, what the handler did with it.           *)

\* callbacks the listener will receive at most
MaxRequests == 3

\* a query parameter that is missing (or blank: parse_qs drops blank values)
NoParam == "<None>"

auth_state == "S"

\* in place of a status when the token exchange raised instead of returning
ExchangeRaised == -1

Requests == [received_state : {auth_state, "X", NoParam}, code : {"c1", "c2", NoParam}]

NoRequest == [received_state |-> NoParam, code |-> NoParam]

Entry(req) == [received_state |-> req.received_state, code |-> req.code,
               exchange |-> 0, response |-> 0, put |-> FALSE]

\* the token set the vendor returns for the n-th callback's code
TokenOf(n) == [access_token |-> n]

OAuthIdle ==
    /\ callerPc = "idle" /\ serverPc = "idle" /\ token_queue = <<>>
    /\ shutdown_request = FALSE /\ is_shut_down = FALSE
    /\ request = NoRequest /\ handled = <<>> /\ token = None

OAuthInit ==
    /\ callerPc = "start" /\ serverPc = "not_started" /\ token_queue = <<>>
    /\ shutdown_request = FALSE /\ is_shut_down = FALSE
    /\ request = NoRequest /\ handled = <<>> /\ token = None

\* the request being handled
Cur == Len(handled)

\* the check of do_GET without the comparison of the state
Valid_AnyState(req) == req.code # NoParam

\* the check of do_GET
Valid(req) == req.code # NoParam /\ req.received_state = auth_state

\* server_thread.start(), up to the blocking token_queue.get()
StartServer ==
    /\ callerPc = "start"
    /\ callerPc' = "get" /\ serverPc' = "select" /\ is_shut_down' = FALSE
    /\ UNCHANGED <<token_queue, shutdown_request, request, handled, token>>
    /\ UNCHANGED <<uvVars, fnVars, mainVars>>

\* serve_forever: a callback is ready and no shutdown was requested
Accept ==
    /\ serverPc = "select" /\ ~ shutdown_request /\ Len(handled) < MaxRequests
    /\ \E req \in Requests :
         /\ request' = req
         /\ handled' = Append(handled, Entry(req))
    /\ serverPc' = "do_GET"
    /\ UNCHANGED <<callerPc, token_queue, shutdown_request, is_shut_down, token>>
    /\ UNCHANGED <<uvVars, fnVars, mainVars>>

\* do_GET up to the token exchange; an invalid request is answered 400
DoGet ==
    /\ serverPc = "do_GET"
    /\ IF Valid(request)
       THEN /\ serverPc' = "exchange"
            /\ UNCHANGED handled
       ELSE /\ handled' = [handled EXCEPT ![Cur].response = 400]
            /\ serverPc' = "select"
    /\ UNCHANGED <<callerPc, token_queue, shutdown_request, is_shut_down, request, token>>
    /\ UNCHANGED <<uvVars, fnVars, mainVars>>

\* requests.post(token_url, ...) and the test of its status; when the call raises,
\* the server drops the connection without a response and goes on serving
Exchange ==
    /\ serverPc = "exchange"
    /\ \E status \in {200, 400, ExchangeRaised} :
         IF status = 200
         THEN /\ handled' = [handled EXCEPT ![Cur].exchange = status]
              /\ serverPc' = "put"
         ELSE IF status = ExchangeRaised
         THEN /\ handled' = [handled EXCEPT ![Cur].exchange = status]
              /\ serverPc' = "select"
         ELSE /\ handled' = [handled EXCEPT ![Cur].exchange = status, ![Cur].response = 500]
              /\ serverPc' = "select"
    /\ UNCHANGED <<callerPc, token_queue, shutdown_request, is_shut_down, request, token>>
    /\ UNCHANGED <<uvVars, fnVars, mainVars>>

\* token_queue.put(response.json())
Put ==
    /\ serverPc = "put"
    /\ token_queue' = Append(token_queue, TokenOf(Cur))
    /\ handled' = [handled EXCEPT ![Cur].put = TRUE]
    /\ serverPc' = "respond"
    /\ UNCHANGED <<callerPc, shutdown_request, is_shut_down, request, token>>
    /\ UNCHANGED <<uvVars, fnVars, mainVars>>

\* send_response(200) and the body; the handler returns to serve_forever
Respond ==
    /\ serverPc = "respond"
    /\ handled' = [handled EXCEPT ![Cur].response = 200]
    /\ serverPc' = "select"
    /\ UNCHANGED <<callerPc, token_queue, shutdown_request, is_shut_down, request, token>>
    /\ UNCHANGED <<uvVars, fnVars, mainVars>>

\* serve_forever sees the shutdown request and leaves its loop
ServerExit ==
    /\ serverPc = "select" /\ shutdown_request
    /\ shutdown_request' = FALSE /\ is_shut_down' = TRUE
    /\ serverPc' = "exited"
    /\ UNCHANGED <<callerPc, token_queue, request, handled, token>>
    /\ UNCHANGED <<uvVars, fnVars, mainVars>>

\* token = token_queue.get()
Get ==
    /\ callerPc = "get" /\ token_queue # <<>>
    /\ token' = Head(token_queue) /\ token_queue' = Tail(token_queue)
    /\ callerPc' = "shutdown"
    /\ UNCHANGED <<serverPc, shutdown_request, is_shut_down, request, handled>>
    /\ UNCHANGED <<uvVars, fnVars, mainVars>>

\* the caller goes on to join the thread without asking the server to stop
Shutdown_Skipped ==
    /\ callerPc = "shutdown"
    /\ callerPc' = "join"
    /\ UNCHANGED <<serverPc, token_queue, shutdown_request, is_shut_down, request, handled, token>>
    /\ UNCHANGED <<uvVars, fnVars, mainVars>>

\* server.shutdown(): request the shutdown ...
Shutdown ==
    /\ callerPc = "shutdown"
    /\ shutdown_request' = TRUE
    /\ callerPc' = "wait"
    /\ UNCHANGED <<serverPc, token_queue, is_shut_down, request, handled, token>>
    /\ UNCHANGED <<uvVars, fnVars, mainVars>>

\* ... and wait until serve_forever has left its loop
WaitShutDown ==
    /\ callerPc = "wait" /\ is_shut_down
    /\ callerPc' = "join"
    /\ UNCHANGED <<serverPc, token_queue, shutdown_request, is_shut_down, request, handled, token>>
    /\ UNCHANGED <<uvVars, fnVars, mainVars>>

\* server_thread.join(); return token
Join ==
    /\ callerPc = "join" /\ serverPc = "exited"
    /\ callerPc' = "returned"
    /\ UNCHANGED <<serverPc, token_queue, shutdown_request, is_shut_down, request, handled, token>>
    /\ UNCHANGED <<uvVars, fnVars, mainVars>>

NextOAuth ==
    \/ StartServer \/ Accept \/ DoGet \/ Exchange \/ Put \/ Respond \/ ServerExit
    \/ Get \/ Shutdown \/ WaitShutDown \/ Join

----------------------------------------------------------------------------
(* Specifications *)

\* one run of main
Init == MainInit /\ UVIdle /\ FnIdle /\ OAuthIdle
Spec == Init /\ [][Next]_vars

\* update_heat_values / update_cool_values on drawn inputs
InitUV == UVInit /\ FnIdle /\ MainIdle /\ OAuthIdle
NextUV == CallHeat \/ CallCool \/ CallHeatAgain \/ CallCoolAgain
SpecUV == InitUV /\ [][NextUV]_vars

\* is_x_minutes_in_future on drawn inputs
InitFuture == FutureInit /\ UVIdle /\ MainIdle /\ OAuthIdle
NextFuture == CallFuture
SpecFuture == InitFuture /\ [][NextFuture]_vars

\* add_missing_temperature_units on drawn location_prefs
InitUnits == UnitsInit /\ UVIdle /\ MainIdle /\ OAuthIdle
NextUnits == CallAddUnits
SpecUnits == InitUnits /\ [][NextUnits]_vars

\* round_up_to_quarter_hour on drawn timestamps
InitRound == RoundInit /\ UVIdle /\ MainIdle /\ OAuthIdle
NextRound == CallRound
SpecRound == InitRound /\ [][NextRound]_vars

\* one invocation of get_oath2_token
InitOAuth == OAuthInit /\ MainIdle /\ UVIdle /\ FnIdle
SpecOAuth == InitOAuth /\ [][NextOAuth]_vars

\* the same with both threads scheduled: every step of the handler and of the
\* caller that can be taken is taken eventually (callbacks arrive or not, as the
\* browser pleases)
SpecOAuthFair ==
    /\ InitOAuth /\ [][NextOAuth]_vars
    /\ WF_vars(DoGet) /\ WF_vars(Exchange) /\ WF_vars(Put) /\ WF_vars(Respond)
    /\ WF_vars(ServerExit)
    /\ WF_vars(Get) /\ WF_vars(Shutdown) /\ WF_vars(WaitShutDown) /\ WF_vars(Join)

----------------------------------------------------------------------------
(* Properties of main *)

Attempts == {"fetch", "post"}

\* the requests of operation o, in the order they were sent
OpEntries(o) == SelectSeq(log, LAMBDA e : e.op = o)

Ops == { log[i].op : i \in 1..Len(log) }

Outcomes_of(o) == [i \in 1..Len(OpEntries(o)) |-> OpEntries(o)[i].outcome]

\* entry i is the retry of an operation, sent after a successful refresh
IsRetry(i) ==
    /\ i > 1 /\ i <= Len(log)
    /\ log[i].kind \in Attempts
    /\ log[i - 1].kind = "refresh" /\ log[i - 1].outcome = "ok"

\* C1: every authenticated operation is attempted at most twice with at most one
\* refresh: its requests are an attempt, then (only after a failed attempt) one
\* refresh, then (only after a successful refresh) one more attempt; an operation
\* whose retry succeeds lets main carry on without an error code.
C1_BoundedRetry ==
    /\ \A o \in Ops :
         LET s == OpEntries(o)
         IN  /\ Len(s) <= 3
             /\ s[1].kind \in Attempts
             /\ Len(s) >= 2 => s[1].outcome = "fail" /\ s[2].kind = "refresh"
             /\ Len(s) = 3 => s[2].outcome = "ok" /\ s[3].kind = s[1].kind
    /\ \A i \in 1..Len(log) :
         (i < Len(log) /\ log[i].op # log[i + 1].op) =>
             \A j \in (i + 1)..Len(log) : log[j].op # log[i].op
    /\ (IsRetry(Len(log)) /\ log[Len(log)].outcome = "ok") =>
           (ret \in {NoCode, 0} /\ pc # "raised" /\ (pc = "done" => ret = 0))

C1_Witness ==
    /\ pc = "loop" /\ Len(log) >= 3
    /\ log[Len(log)].kind = "post" /\ log[Len(log)].outcome = "ok"
    /\ Outcomes_of(log[Len(log)].op) = <<"fail", "ok", "ok">>

\* C2: when the retry after a successful refresh is issued, the credential store
\* holds the token set that refresh returned.
C2_PersistBeforeRetry ==
    IsRetry(Len(log)) =>
        /\ store["access_token"] = log[Len(log) - 1].new
        /\ store["refresh_token"] = log[Len(log) - 1].new

\* C3: the retry after a successful refresh carries the access token that refresh
\* returned.
C3_RetryUsesNewToken ==
    \A i \in 1..Len(log) : IsRetry(i) => log[i].token = log[i - 1].new

PushOps == { log[i].op : i \in { j \in 1..Len(log) : log[j].kind = "post" } }

FetchFailedRefreshFailed == Len(log) >= 1 /\ Outcomes_of(0) = <<"fail", "fail">>
FetchFailedAfterRefresh == Len(log) >= 1 /\ Outcomes_of(0) = <<"fail", "ok", "fail">>
PushFailedRefreshFailed == \E o \in PushOps : Outcomes_of(o) = <<"fail", "fail">>
PushFailedAfterRefresh == \E o \in PushOps : Outcomes_of(o) = <<"fail", "ok", "fail">>

\* C4: a completed run returns 1, 2, 3 or 4 exactly in the four failure cases and 0
\* otherwise, and the failed request that decides a non-zero code is the last one sent.
C4_ExitCodes ==
    pc = "done" =>
        /\ ret \in 0..4
        /\ ret = 1 <=> FetchFailedRefreshFailed
        /\ ret = 2 <=> FetchFailedAfterRefresh
        /\ ret = 3 <=> PushFailedRefreshFailed
        /\ ret = 4 <=> PushFailedAfterRefresh
        /\ ret # 0 => log[Len(log)].outcome = "fail"

C4_Witness ==
    /\ pc = "done" /\ ret = 4
    /\ \E i \in 1..Len(log) : log[i].kind = "post" /\ log[i].outcome = "ok"

Examined(o) == CHOOSE e \in { examined[i] : i \in 1..Len(examined) } : e.op = o

Temps(e) == location_prefs[e.loc_id][e.device.deviceID].temperatures

\* C7: a configured device is heated exactly when its temperature is strictly below
\* lowest and cooled exactly when it is not and is strictly above highest, both in
\* the device's unit; settings are pushed only for a configured device that is out
\* of range, with the mode of the update that ran.
C7_Thresholds ==
    /\ \A i \in 1..Len(examined) :
         LET e == examined[i]
             t == e.device.indoorTemperature
             u == e.device.units
         IN  /\ e.call = "update_heat_values" <=> t < Temps(e)["lowest"][u]
             /\ e.call = "update_cool_values" <=>
                    (~ (t < Temps(e)["lowest"][u]) /\ t > Temps(e)["highest"][u])
             /\ e.call = "none" => e.ret = None
    /\ \A i \in 1..Len(log) :
         log[i].kind = "post" =>
             /\ log[i].loc_id \in DOMAIN location_prefs
             /\ log[i].dev_id \in DOMAIN location_prefs[log[i].loc_id]
             /\ \E j \in 1..Len(examined) :
                  /\ examined[j].op = log[i].op
                  /\ examined[j].device.deviceID = log[i].dev_id
                  /\ examined[j].call # "none"
                  /\ examined[j].call = "update_heat_values" =>
                         /\ log[i].values["mode"] = "Heat"
                         /\ log[i].values["heatSetpoint"] =
                                Temps(examined[j])["preferred"][examined[j].device.units]
                  /\ examined[j].call = "update_cool_values" =>
                         /\ log[i].values["mode"] = "Cool"
                         /\ log[i].values["coolSetpoint"] =
                                Temps(examined[j])["preferred"][examined[j].device.units]

\* a run that saw an unconfigured location, a device on each threshold and a
\* Celsius device above highest, and pushed the cool update
C7_Witness ==
    /\ pc = "done" /\ Len(location_response) = 2 /\ Len(examined) = 2
    /\ examined[1].device.indoorTemperature = F(65) /\ examined[1].call = "none"
    /\ examined[2].device.units = "Celsius" /\ examined[2].call = "update_cool_values"
    /\ \E i \in 1..Len(log) : log[i].kind = "post" /\ log[i].outcome = "ok"

AllCallsSucceeded == \A i \in 1..Len(log) : log[i].outcome = "ok"

\* C8: in a completed run with every API call succeeding, a configured device that is
\* strictly below lowest and has neither the mode "Heat" nor the preferred heatSetpoint
\* is pushed exactly once, with mode "Heat", the preferred heatSetpoint, status
\* "HoldUntil" and the nextPeriodTime computed from the current time.
C8_EndToEnd ==
    (pc = "done" /\ AllCallsSucceeded) =>
        \A j \in 1..Len(examined) :
            LET e == examined[j]
                u == e.device.units
                v == e.device.changeableValues
            IN  ( /\ e.device.indoorTemperature < Temps(e)["lowest"][u]
                  /\ v["mode"] # "Heat"
                  /\ v["heatSetpoint"] # Temps(e)["preferred"][u] ) =>
                    /\ Len(OpEntries(e.op)) = 1
                    /\ LET p == OpEntries(e.op)[1]
                       IN  /\ p.kind = "post" /\ p.dev_id = e.device.deviceID
                           /\ p.values["mode"] = "Heat"
                           /\ p.values["heatSetpoint"] = Temps(e)["preferred"][u]
                           /\ p.values["thermostatSetpointStatus"] = "HoldUntil"
                           /\ p.values["nextPeriodTime"] =
                                  strftime(round_up_to_quarter_hour(AddMinutes(e.now, 15)))

----------------------------------------------------------------------------
(* Properties of update_values *)

UVCalled == uvPc \in {"heat", "cool"}

UVSetpoint == IF uvPc = "heat" THEN "heatSetpoint" ELSE "coolSetpoint"

\* the call changed mode, heatCoolMode or the setpoint field
UVChanged ==
    \/ uvOut.values["mode"] # uvIn.values["mode"]
    \/ uvOut.values[UVSetpoint] # uvIn.values[UVSetpoint]
    \/ /\ "heatCoolMode" \in DOMAIN uvIn.values
       /\ uvOut.values["heatCoolMode"] # uvIn.values["heatCoolMode"]

SecondOfDay(t) == t.hour * 3600 + t.minute * 60 + t.second

\* time_str, read as the next occurrence of that time of day, is at least m minutes
\* after now
AtLeastMinutesAhead(time_str, m, now) ==
    LET early == IF now.microsecond > 0 THEN 1 ELSE 0
    IN  (SecondOfDay(time_str) - SecondOfDay(now) - early) % 86400 >= m * 60

\* C5: update_values returns the modified dict whenever it changed mode, heatCoolMode
\* or the setpoint, and None exactly when it changed none of them.
C5_ReturnsWhenChanged ==
    UVCalled =>
        /\ UVChanged => uvOut.ret = uvOut.values
        /\ ~ UVChanged => uvOut.ret = None

\* C6: a call that changes a field leaves thermostatSetpointStatus and nextPeriodTime
\* alone when the status is "HoldUntil" and nextPeriodTime is at least 15 minutes
\* ahead, and otherwise sets "HoldUntil" and the recomputed nextPeriodTime.
C6_HoldWindow ==
    (UVCalled /\ UVChanged) =>
        IF /\ uvIn.values["thermostatSetpointStatus"] = "HoldUntil"
           /\ AtLeastMinutesAhead(uvIn.values["nextPeriodTime"], 15, uvIn.now)
        THEN /\ uvOut.values["thermostatSetpointStatus"] = "HoldUntil"
             /\ uvOut.values["nextPeriodTime"] = uvIn.values["nextPeriodTime"]
        ELSE /\ uvOut.values["thermostatSetpointStatus"] = "HoldUntil"
             /\ uvOut.values["nextPeriodTime"] =
                    strftime(round_up_to_quarter_hour(AddMinutes(uvIn.now, 15)))

----------------------------------------------------------------------------
(* Properties of get_oath2_token *)

Completed == { i \in 1..Len(handled) : handled[i].put }

\* the callback carries the expected state and a code
GoodCallback(h) == h.received_state = auth_state /\ h.code \in {"c1", "c2"}

\* the handler has finished with request i
Finished(i) == i < Len(handled) \/ serverPc \in {"select", "exited"}

\* C9: a callback hands a token over exactly when its state is the expected one, its
\* code is present and the exchange returned 200, and it is then answered 200; an
\* invalid callback is answered 400 without an exchange, a failed exchange 500; in
\* both cases nothing is handed over, and while no callback has completed the caller
\* stays blocked and the listener keeps serving.
C9_Callback ==
    /\ \A i \in 1..Len(handled) :
         LET h == handled[i]
         IN  /\ h.put => (GoodCallback(h) /\ h.exchange = 200)
             /\ h.exchange # 0 => GoodCallback(h)
             /\ Finished(i) =>
                  /\ h.put <=> (GoodCallback(h) /\ h.exchange = 200)
                  /\ h.response = 200 <=> h.put
                  /\ h.response = 400 <=> ~ GoodCallback(h)
                  /\ h.response = 500 <=>
                         (GoodCallback(h) /\ h.exchange \notin {200, ExchangeRaised})
                  /\ h.response = 0 <=> h.exchange = ExchangeRaised
    /\ Len(token_queue) + (IF token = None THEN 0 ELSE 1) = Cardinality(Completed)
    /\ Completed = {} =>
         /\ callerPc \in {"start", "get"}
         /\ ~ shutdown_request
         /\ callerPc = "get" => serverPc # "exited"

\* an invalid callback and a failed exchange were answered, then a valid callback
\* completed
C9_Witness ==
    /\ Len(handled) = 3 /\ serverPc = "select"
    /\ handled[1].response = 400 /\ handled[1].received_state = "X"
    /\ handled[1].code # NoParam
    /\ handled[2].response = 500
    /\ handled[3].response = 200 /\ handled[3].put

\* C10: at most one callback completes the flow: at most one token set is ever put
\* in the queue and at most one exchange succeeds, and the caller returns the token
\* of that completion.
C10_AtMostOneCompletion ==
    /\ Cardinality(Completed) <= 1
    /\ Cardinality({ i \in 1..Len(handled) : handled[i].exchange = 200 }) <= 1
    /\ callerPc = "returned" => \E i \in Completed : token = TokenOf(i)

\* C11: once a token has been handed off the caller eventually returns; it returns
\* only when serve_forever has left its loop and its thread has ended; and it never
\* returns when no callback has completed.
C11_ReturnsAfterShutdown ==
    /\ (Completed # {}) ~> (callerPc = "returned")
    /\ [](callerPc = "returned" =>
            (serverPc = "exited" /\ is_shut_down /\ Completed # {} /\ token # None))

\* the caller has returned although a callback was still being answered when it
\* took the token
C11_Witness ==
    /\ callerPc = "returned" /\ serverPc = "exited"
    /\ Len(handled) >= 2 /\ handled[1].response = 400
    /\ \E i \in Completed : token = TokenOf(i)

\* the handler has started a token exchange for request i
Started(i) == handled[i].exchange # 0 \/ (i = Cur /\ serverPc = "exchange")

\* C12: the state is single-use: at most one callback carrying the expected state and
\* a code starts a token exchange.
C12_StateSingleUse ==
    Cardinality({ i \in 1..Len(handled) :
                    handled[i].received_state = auth_state /\ Started(i) }) <= 1

----------------------------------------------------------------------------
(* Properties of round_up_to_quarter_hour *)

Aligned(dt) == dt.minute % 15 = 0 /\ dt.second = 0 /\ dt.microsecond = 0

\* C13: a timestamp on a quarter hour with zero seconds and microseconds is returned
\* unchanged; any other is mapped to the smallest quarter-hour timestamp strictly
\* greater (less than 15 minutes later), across the hour and, from 23:45:00.000001
\* on, to 00:00:00 of the next day.
C13_RoundUp ==
    fnPc = "round_up_to_quarter_hour" =>
        LET i == fnIn.dt
            o == fnOut.dt
        IN  IF Aligned(i)
            THEN o = i
            ELSE /\ Aligned(o)
                 /\ o.hour \in 0..23 /\ o.minute \in 0..59
                 /\ DtGreater(o, i)
                 /\ DtGreater(AddMinutes(i, 15), o)
                 /\ DtGreater(i, DT(i.day, 23, 45, 0, 0)) => o = DT(i.day + 1, 0, 0, 0, 0)

C13_Witness ==
    /\ fnPc = "round_up_to_quarter_hour"
    /\ fnIn.dt = DT(0, 23, 45, 0, 1)
    /\ fnOut.dt = DT(1, 0, 0, 0, 0)

----------------------------------------------------------------------------
(* Properties of is_x_minutes_in_future *)

\* C14: the result is true exactly when time_str, on the day of now, is at least
\* minutes_in_future minutes after now.
C14_AtLeastXMinutes ==
    fnPc = "is_x_minutes_in_future" =>
        (fnOut.result <=>
            ~ DtGreater(AddMinutes(fnIn.now, fnIn.minutes_in_future),
                        combine(fnIn.now, fnIn.time_str)))

----------------------------------------------------------------------------
(* More properties of update_values *)

UVCalledTwice == uvPc \in {"heat2", "cool2"}

\* C15: a second call right after the first, on the dict the first call left and with
\* the same thresholds, changes no field and returns None.
C15_Idempotent ==
    UVCalledTwice => (uvOut2.ret = None /\ uvOut2.values = uvOut.values)

\* the first call changed the dict and returned it, the second returned None
C15_Witness ==
    /\ uvPc = "heat2" /\ uvIn.device_units = "Celsius"
    /\ uvOut.ret # None /\ uvOut.values # uvIn.values
    /\ uvOut2.ret = None

\* seconds from now to the next occurrence of the time of day t, rounded up
SecondsUntil(t, now) == (SecondOfDay(t) - SecondOfDay(now)) % 86400

\* C20: a returned dict has the status "HoldUntil" and a nextPeriodTime on a quarter
\* hour, at least 15 and less than 30 minutes after the clock reading of the call,
\* modulo 24 hours.
C20_ReturnedHold ==
    (uvPc # "start" /\ uvOut.ret # None) =>
        LET t == uvOut.ret["nextPeriodTime"]
            d == SecondsUntil(t, uvIn.now)
        IN  /\ uvOut.ret["thermostatSetpointStatus"] = "HoldUntil"
            /\ t.minute \in {0, 15, 30, 45} /\ t.second = 0 /\ t.hour \in 0..23
            /\ IF uvIn.now.microsecond = 0
               THEN d >= 900 /\ d < 1800
               ELSE d > 900 /\ d <= 1800
            /\ uvIn.now = DT(0, 23, 50, 0, 0) => t = T(0, 15, 0)
            /\ uvIn.now = DT(0, 23, 45, 0, 0) => t = T(0, 0, 0)

C20_Witness ==
    /\ uvPc = "cool" /\ uvIn.now = DT(0, 23, 50, 0, 0)
    /\ uvOut.ret # None /\ uvOut.ret["nextPeriodTime"] = T(0, 15, 0)
    /\ uvIn.values["thermostatSetpointStatus"] = "HoldUntil"

----------------------------------------------------------------------------
(* Properties of add_missing_temperature_units *)

Abs(x) == IF x < 0 THEN 0 - x ELSE x

\* C16: afterwards every setting has both units; a supplied unit keeps its value; a
\* missing Fahrenheit is a whole number of degrees nearest to Celsius * 9 / 5 + 32; a
\* missing Celsius is the half degree nearest to (Fahrenheit - 32) * 5 / 9.
C16_Backfill ==
    fnPc = "add_missing_temperature_units" =>
        \A setting \in Settings :
            LET i == fnIn.prefs["L1"]["D1"].temperatures[setting]
                o == fnOut.prefs["L1"]["D1"].temperatures[setting]
            IN  /\ DOMAIN o = {"Fahrenheit", "Celsius"}
                /\ \A u \in DOMAIN i : o[u] = i[u]
                /\ "Fahrenheit" \notin DOMAIN i =>
                       /\ o["Fahrenheit"] % 2 = 0
                       /\ Abs(5 * o["Fahrenheit"] - (9 * i["Celsius"] + 320)) <= 5
                /\ "Celsius" \notin DOMAIN i =>
                       2 * Abs(9 * o["Celsius"] - 5 * (i["Fahrenheit"] - 64)) <= 9
                /\ i = Conly(40) => o["Fahrenheit"] = F(68)
                /\ i = Fonly(68) => o["Celsius"] = 40
                /\ i = Fonly(70) => o["Celsius"] = 42

\* Celsius 20, Fahrenheit 70 and a setting given in both units, after the call
C16_Witness ==
    /\ fnPc = "add_missing_temperature_units"
    /\ fnIn.prefs["L1"]["D1"].temperatures["lowest"] = Conly(40)
    /\ fnIn.prefs["L1"]["D1"].temperatures["preferred"] = Fonly(70)
    /\ DOMAIN fnIn.prefs["L1"]["D1"].temperatures["highest"] = {"Fahrenheit", "Celsius"}
    /\ fnOut.prefs["L1"]["D1"].temperatures["lowest"]["Fahrenheit"] = F(68)
    /\ fnOut.prefs["L1"]["D1"].temperatures["preferred"]["Celsius"] = 42
    /\ fnOut.prefs["L1"]["D1"].temperatures["highest"]["Celsius"] = 99

----------------------------------------------------------------------------
(* error handling of main *)

\* the devices of the fetch response that location_prefs configures, as operations
ConfiguredOps ==
    { o \in 11..22 :
        LET l == o \div 10
            d == o % 10
        IN  /\ l \in 1..Len(location_response)
            /\ d \in 1..Len(location_response[l].devices)
            /\ location_response[l].locationID \in DOMAIN location_prefs
            /\ location_response[l].devices[d].deviceID
                   \in DOMAIN location_prefs[location_response[l].locationID] }

ExaminedOps == { examined[j].op : j \in 1..Len(examined) }

\* C17: when a settings push has failed after its retry, the run still examines
\* every configured device of the fetch response before it ends.
C17_RemainingDevicesProcessed ==
    (pc = "done" /\ PushFailedAfterRefresh) => ConfiguredOps \subseteq ExaminedOps

\* requests of the device loop that raised, and devices whose update raised
RaisedRequests == { i \in 1..Len(log) : log[i].outcome = "raise" /\ log[i].op # 0 }
RaisedUpdates == { j \in 1..Len(examined) : examined[j].raised }

\* C18: once a request of the device loop or an update has raised, main is past the
\* loop and not ended by the exception; the raising request is the last request
\* sent, the device it belongs to is the last one examined, a device whose update
\* raised is the last one examined and was never pushed, and main ends returning 0.
C18_ShortCircuit ==
    (RaisedRequests # {} \/ RaisedUpdates # {}) =>
        /\ pc \in {"report", "done"}
        /\ ret \in {NoCode, 0}
        /\ pc = "done" => ret = 0
        /\ RaisedRequests \subseteq {Len(log)}
        /\ RaisedUpdates \subseteq {Len(examined)}
        /\ RaisedRequests # {} => examined[Len(examined)].op = log[Len(log)].op
        /\ RaisedUpdates # {} =>
               \A i \in 1..Len(log) :
                   \/ log[i].op = 0
                   \/ \E j \in 1..(Len(examined) - 1) : examined[j].op = log[i].op

\* the update of the first device raised, an out-of-range second device was never
\* examined, and main returned 0
C18_Witness ==
    /\ pc = "done" /\ ret = 0
    /\ Len(examined) = 1 /\ examined[1].raised /\ examined[1].op = 11
    /\ Len(location_response) = 1
    /\ location_response[1].devices[2].indoorTemperature = 34
    /\ Len(log) = 1

\* C19: with a malformed configuration file or a malformed credentials file, no
\* request (fetch, refresh or push) is ever sent, no device is examined and main
\* returns no code: it ends with the failed assert.
C19_MalformedIsFatal ==
    (config \in BadConfigs \/ store \in BadCreds) =>
        /\ log = <<>> /\ examined = <<>>
        /\ pc \in {"start", "raised"}
        /\ ret = NoCode /\ creds = None

\* main ended by the assert on a temperature that is not a number, nothing sent
C19_Witness ==
    /\ pc = "raised" /\ log = <<>>
    /\ store = GoodCreds
    /\ config \in BadConfigs
    /\ "location_prefs" \in DOMAIN config
    /\ "temperatures" \in DOMAIN config["location_prefs"]["L1"]["D1"]
    /\ "lowest" \in DOMAIN config["location_prefs"]["L1"]["D1"].temperatures
    /\ "Fahrenheit" \in DOMAIN config["location_prefs"]["L1"]["D1"].temperatures["lowest"]
    /\ config["location_prefs"]["L1"]["D1"].temperatures["lowest"]["Fahrenheit"] = NonNumeric

\* the successful refreshes sent before request i
RefreshedBefore(i) ==
    { j \in 1..(i - 1) : log[j].kind = "refresh" /\ log[j].outcome = "ok" }

\* the latest of them
LastRefreshBefore(i) == CHOOSE j \in RefreshedBefore(i) : \A k \in RefreshedBefore(i) : k <= j

\* C21: every refresh sent after a successful refresh carries the refresh token that
\* the most recent successful refresh returned.
C21_NoStaleRefreshToken ==
    \A i \in 1..Len(log) :
        (log[i].kind = "refresh" /\ RefreshedBefore(i) # {}) =>
            log[i].token = log[LastRefreshBefore(i)].new

====
